---- MODULE Spec2Model ----
(***************************************************************************)
(* Model of the interactive viewport and gesture controller of             *)
(* USInteractiveMap (src/unnamed/part_000).                                *)
(*                                                                         *)
(* Numbers.  The component computes in IEEE doubles.  The model uses fixed *)
(* point: zoom is an integer number of thousandths (1.15 is 1150), pan is  *)
(* an integer number of thousandths of a pixel, pointer coordinates,       *)
(* container sizes and projected bounds are whole pixels, time is whole    *)
(* milliseconds.  Quotients truncate toward zero.                          *)
(*                                                                         *)
(* Rendering.  A React state update made by a handler, an effect or a      *)
(* frame callback is followed by the re-render and by the effects whose    *)
(* dependencies changed before the next event is handled, so each action   *)
(* below is the handler together with the render and the effects it        *)
(* causes.                                                                 *)
(***************************************************************************)
EXTENDS Integers, FiniteSets, Sequences, TLC

\* ------------------------------------------------------------------ bounds

\* Drag moves applied to pan in a run.
MaxPanMoves == 2

\* Selection changes and resizes in a run that supersede an animation in
\* flight.
MaxInterrupts == 1

\* A run that supersedes an animation in flight applies at most one drag
\* move to pan: the two budgets above are not spent in full in one run.
MixedPanMoves == IF MaxPanMoves > 0 THEN 1 ELSE 0

\* ------------------------------------------------------- program constants

Unit == 10 * 100            \* fixed-point scale: thousandths

NULL == "null"

BASE_ZOOM == 1150           \* const base = 1.15 / let z1 = 1.15
MICRO_CAP == 2400           \* micro ? 2.4
DEFAULT_CAP == 3000         \* : 3.0
MIN_HEIGHT == 640           \* Math.max(640, cr.width)
INIT_WIDTH == 1200          \* useState({ width: 1200, height: 900 })
INIT_HEIGHT == 900
padding == 6
duration == 350
margin == 80
dampenNum == 9              \* dampen = 0.9 as the fraction 9 / 10
dampenDen == 10
DRAG_THRESHOLD == 4

MicroIds == {"09", "10", "11", "24", "25", "34", "44", "50"}

\* ------------------------------------------------------------ environment

\* The regions of the loaded topology that the pointer is pressed and
\* released on (FIPS ids of features).
Regions == {"44", "48", "06", "02"}

\* A feature of the loaded topology whose box is degenerate (a single point).
PointRegion == "11"

\* The features of the loaded topology.
Features == Regions \cup {PointRegion}

\* The geometry of the loaded topology, in the projection's native plane:
\* the box of the whole collection and the box of each feature.
GeoSize == [w |-> 1188, h |-> 888]
GeoBox ==
    [r \in Features |->
        CASE r = "11" -> [x0 |-> 900,  y0 |-> 400, x1 |-> 900,  y1 |-> 400]
          [] r = "44" -> [x0 |-> 1100, y0 |-> 200, x1 |-> 1110, y1 |-> 210]
          [] r = "48" -> [x0 |-> 300,  y0 |-> 300, x1 |-> 768,  y1 |-> 600]
          [] r = "06" -> [x0 |-> 50,   y0 |-> 300, x1 |-> 150,  y1 |-> 500]
          [] r = "02" -> [x0 |-> 600,  y0 |-> 40,  x1 |-> 650,  y1 |-> 840]]

\* An id that no feature of the collection carries.
UnknownId == "99"

\* The ids a selection is made with.
Ids == Features \cup {UnknownId}

\* Container widths the ResizeObserver reports.
Widths == {600, 0}

\* Pointer positions (clientX, clientY).
Points == { <<0, 0>>, <<2, 2>>, <<4, 0>>, <<10, 0>> }

\* Where the pointer is pressed.
PressPoints == { <<0, 0>> }

\* A ref that holds no point (null).
NoPoint == <<>>

\* No press is remembered.
NoView == <<>>

\* Milliseconds between the time an animation was last observed and the
\* timestamp of the next frame.
FrameDts == {0, 175, 350}

\* ---------------------------------------------------------------- helpers

Min(a, b) == IF a <= b THEN a ELSE b
Max(a, b) == IF a >= b THEN a ELSE b

\* a / b on numbers, truncated toward zero; b > 0.
Quot(a, b) == IF a >= 0 THEN a \div b ELSE -((-a) \div b)

\* Mutant of clamp: the lower limit is not applied.
clampNoFloor(n, a, b) == Min(b, n)

clamp(n, a, b) == Max(a, Min(b, n))

\* lerp(a, b, t) with t = tn / duration.
lerp(a, b, tn) == a + Quot((b - a) * tn, duration)

\* Mutant of maxZoomFor: the smaller cap of the micro-states is forgotten.
maxZoomForNoMicro(id) == DEFAULT_CAP

maxZoomFor(id) == IF id # NULL /\ id \in MicroIds THEN MICRO_CAP ELSE DEFAULT_CAP

\* ------------------------------------------------- projection and bounds

\* d3.geoAlbersUsa().fitExtent([[padding, padding], [w - padding, h - padding]],
\* states): the collection is scaled uniformly by k = Min(ew / gw, eh / gh)
\* (ew, eh the sides of the extent) and centred in the extent.  fitScale is
\* k as the fraction num / den.
fitScale(w, h) ==
    LET ew == w - 2 * padding
        eh == h - 2 * padding
    IN  IF ew * GeoSize.h <= eh * GeoSize.w
        THEN [num |-> ew, den |-> GeoSize.w]
        ELSE [num |-> eh, den |-> GeoSize.h]

projectX(gx, w, h) ==
    LET k == fitScale(w, h)
    IN  padding + Quot((w - 2 * padding) * k.den - k.num * GeoSize.w, 2 * k.den)
                + Quot(k.num * gx, k.den)

projectY(gy, w, h) ==
    LET k == fitScale(w, h)
    IN  padding + Quot((h - 2 * padding) * k.den - k.num * GeoSize.h, 2 * k.den)
                + Quot(k.num * gy, k.den)

\* path.bounds(f): [[x0, y0], [x1, y1]] of the projected feature.
pathBounds(id, w, h) ==
    LET g  == GeoBox[id]
        xa == projectX(g.x0, w, h)
        xb == projectX(g.x1, w, h)
        ya == projectY(g.y0, w, h)
        yb == projectY(g.y1, w, h)
    IN  [x0 |-> Min(xa, xb), y0 |-> Min(ya, yb),
         x1 |-> Max(xa, xb), y1 |-> Max(ya, yb)]

\* states.features.find(...): is there a feature with this id.
findFeature(id) == id \in Features

\* ----------------------------------------------------------- the targets

\* Mutant of basePan: the offset is not halved.
basePanNoHalf(w, h) ==
    [x |-> w * Unit - w * BASE_ZOOM,
     y |-> h * Unit - h * BASE_ZOOM]

\* { x: (width - width * base) / 2, y: (height - height * base) / 2 }
basePan(w, h) ==
    [x |-> Quot(w * Unit - w * BASE_ZOOM, 2),
     y |-> Quot(h * Unit - h * BASE_ZOOM, 2)]

\* Mutant of desiredZoom: the exact fit, without the dampening.
desiredZoomNoDampen(w, h, bw, bh) ==
    Min(Quot((w - margin * 2) * Unit, bw), Quot((h - margin * 2) * Unit, bh))

\* Math.min(sx, sy) * dampen, with the factor dampen taken into each
\* quotient so that the value is rounded once.
desiredZoom(w, h, bw, bh) ==
    Min(Quot((w - margin * 2) * dampenNum * Unit, bw * dampenDen),
        Quot((h - margin * 2) * dampenNum * Unit, bh * dampenDen))

\* Mutant of targetOf: the pan puts the corner (x0, y0) of the box, not its
\* centre, at the centre of the viewport.
targetOfCorner(sel, w, h) ==
    IF sel # NULL /\ findFeature(sel)
    THEN LET b   == pathBounds(sel, w, h)
             bw  == Max(1, b.x1 - b.x0)
             bh  == Max(1, b.y1 - b.y0)
             z1  == clamp(desiredZoom(w, h, bw, bh), BASE_ZOOM, maxZoomFor(sel))
         IN  [z |-> z1,
              p |-> [x |-> Quot(w * Unit, 2) - z1 * b.x0,
                     y |-> Quot(h * Unit, 2) - z1 * b.y0]]
    ELSE [z |-> BASE_ZOOM, p |-> basePan(w, h)]

\* Mutant of targetOf: an id with no feature gets the cap as its zoom, with
\* the pan that centres the container at that zoom.
targetOfUnknownCap(sel, w, h) ==
    IF sel # NULL /\ findFeature(sel)
    THEN LET b   == pathBounds(sel, w, h)
             bw  == Max(1, b.x1 - b.x0)
             bh  == Max(1, b.y1 - b.y0)
             z1  == clamp(desiredZoom(w, h, bw, bh), BASE_ZOOM, maxZoomFor(sel))
         IN  [z |-> z1,
              p |-> [x |-> Quot(w * Unit, 2) - Quot(z1 * (b.x0 + b.x1), 2),
                     y |-> Quot(h * Unit, 2) - Quot(z1 * (b.y0 + b.y1), 2)]]
    ELSE IF sel # NULL
         THEN [z |-> maxZoomFor(sel),
               p |-> [x |-> Quot(w * Unit - w * maxZoomFor(sel), 2),
                      y |-> Quot(h * Unit - h * maxZoomFor(sel), 2)]]
         ELSE [z |-> BASE_ZOOM, p |-> basePan(w, h)]

\* The z1 and p1 the animate effect computes for a selection.
targetOf(sel, w, h) ==
    IF sel # NULL /\ findFeature(sel)
    THEN LET b   == pathBounds(sel, w, h)
             bw  == Max(1, b.x1 - b.x0)
             bh  == Max(1, b.y1 - b.y0)
             z1  == clamp(desiredZoom(w, h, bw, bh), BASE_ZOOM, maxZoomFor(sel))
         IN  [z |-> z1,
              p |-> [x |-> Quot(w * Unit, 2) - Quot(z1 * (b.x0 + b.x1), 2),
                     y |-> Quot(h * Unit, 2) - Quot(z1 * (b.y0 + b.y1), 2)]]
    ELSE [z |-> BASE_ZOOM, p |-> basePan(w, h)]

\* ------------------------------------------------------------ the planner

\* Energies are in hundredths of a MWh per day.
Cent == 10 * 10

\* DEFAULT_SOLAR and DEFAULT_WIND: the soft caps of the sliders.
SOLAR_MAX_UNITS == 200
WIND_MAX_UNITS == 200

\* mwPerUnit * capacityFactor * 24: 5 * 0.22 * 24 = 26.4 and
\* 4 * 0.38 * 24 = 36.48 MWh per day and unit.
solarPerUnit == 5 * 22 * 24
windPerUnit == 4 * 38 * 24

\* The row of the CSV for the selected state after toNumber, in MWh per day;
\* a state with no row reads as zeros.
NoRow == [fossil |-> 0, solar |-> 0, wind |-> 0, other |-> 0]
Rows ==
    { NoRow,
      [fossil |-> 100000, solar |-> 20000, wind |-> 30000, other |-> 50000],
      [fossil |-> 26400,  solar |-> 0,     wind |-> 0,     other |-> 0],
      [fossil |-> 1000,   solar |-> 500,   wind |-> 0,     other |-> 250],
      [fossil |-> 0,      solar |-> 10,    wind |-> 0,     other |-> 5] }

\* The demandMWh prop, in MWh per day.
Demands == {250000, 200000, 3648}

\* The values a slider reports, before onChange clamps them.
SliderInputs == {0, 1, 200, 1000, 100000}

\* Math.ceil(a / b) for a >= 0 and b > 0.
Ceil(a, b) == (a + b - 1) \div b

\* The baseline of the planner: the row once the CSV is loaded, when its
\* total is positive; has is FALSE when baseline is undefined, and the
\* fields then read as baseline?.x ?? 0 does.
baselineOf(loaded, row) ==
    LET total == row.fossil + row.solar + row.wind + row.other
    IN  IF loaded /\ total > 0
        THEN [has |-> TRUE, fossilMWh |-> row.fossil * Cent,
              solarMWh |-> row.solar * Cent, windMWh |-> row.wind * Cent,
              otherMWh |-> row.other * Cent, demandMWh |-> total * Cent]
        ELSE [has |-> FALSE, fossilMWh |-> 0, solarMWh |-> 0, windMWh |-> 0,
              otherMWh |-> 0, demandMWh |-> 0]

\* baseline?.demandMWh ?? demandMWh
effectiveDemand(b, demand) == IF b.has THEN b.demandMWh ELSE demand * Cent

remainingToCover(b, demand) ==
    Max(effectiveDemand(b, demand) - (b.solarMWh + b.windMWh + b.otherMWh), 0)

\* Mutant of dynamicMaxSolarUnits: the needed units are rounded down.
dynamicMaxSolarUnitsFloor(b, demand) ==
    Max(SOLAR_MAX_UNITS, remainingToCover(b, demand) \div solarPerUnit)

dynamicMaxSolarUnits(b, demand) ==
    IF solarPerUnit <= 0
    THEN SOLAR_MAX_UNITS
    ELSE Max(SOLAR_MAX_UNITS, Ceil(remainingToCover(b, demand), solarPerUnit))

dynamicMaxWindUnits(b, demand) ==
    IF windPerUnit <= 0
    THEN WIND_MAX_UNITS
    ELSE Max(WIND_MAX_UNITS, Ceil(remainingToCover(b, demand), windPerUnit))

\* finalMix: what the mix becomes with s solar units and w wind units.
finalMix(b, demand, s, w) ==
    LET solarEnergy == s * solarPerUnit
        windEnergy  == w * windPerUnit
        addRenew    == solarEnergy + windEnergy
        displacedFossil == Min(b.fossilMWh, addRenew)
        fossilLeft  == Max(b.fossilMWh - displacedFossil, 0)
        finalSolar  == b.solarMWh + solarEnergy
        finalWind   == b.windMWh + windEnergy
        finalOther  == b.otherMWh
        served      == finalSolar + finalWind + finalOther + fossilLeft
    IN  [finalSolar |-> finalSolar, finalWind |-> finalWind,
         finalOther |-> finalOther, fossilLeft |-> fossilLeft,
         unmet |-> Max(effectiveDemand(b, demand) - served, 0),
         surplus |-> Max(served - effectiveDemand(b, demand), 0)]

\* ------------------------------------------------------------ the gallery

\* The empty string of summary and errorMsg.
NoText == <<>>

\* The number of images of a region (the length of gallery, hence of
\* slides): STATE_IMAGES_INDEX[FIPS_TO_NAME[id]], empty when nothing is
\* selected or the id has no name or no folder.
ImageCount(id) ==
    CASE id = "48" -> 3
      [] id = "06" -> 2
      [] OTHER -> 0

\* The regions clicked while the gallery is used.
GalleryIds == {"48", "06", "44"}

\* (i % n + n) % n with n = Math.max(slides.length, 1); % is the remainder
\* of the truncated division.
Rem(a, n) == a - n * Quot(a, n)
wrapSlide(i, len) ==
    LET n == Max(len, 1)
    IN  Rem(Rem(i, n) + n, n)

\* ------------------------------------------------------------------ state

VARIABLES
    topology,     \* the topology has been fetched (states and path are set)
    width,        \* useSize
    height,
    selectedId,
    zoom,
    pan,
    pending,      \* the callbacks requestAnimationFrame holds, each with the
                  \* constants of the effect run that made it: z0, p0, z1, p1,
                  \* el (milliseconds since t0 when last observed) and cur
                  \* (it is the callback the variable frame of the latest
                  \* effect run names)
    dragging,     \* dragging.current
    isPanning,    \* isPanning.current
    startPt,      \* startPt.current
    last,         \* last.current
    clicked,      \* the region that received the click event of the latest
                  \* release, NULL when the release produced none
    mounted,      \* the component is mounted
    pressView,    \* history: zoom and pan as they were when the pointer was
                  \* pressed, while the gesture lasts and no effect has
                  \* re-run since; NoView otherwise
    fuelLoaded,   \* the planner: fuelMap holds the rows of the CSV
    stateRow,     \* the planner: the row of the CSV for selectedState
    demandMWh,    \* the planner: the demandMWh prop
    solarUnits,   \* the planner: the sliders
    windUnits,
    slide,        \* the carousel index
    renderSlide,  \* the carousel index that the render which followed the
                  \* latest change of the selection was made with (the effect
                  \* that resets slide runs after that render)
    summarizing,
    summary,      \* the summary shown: NoText, or <<id, i>> for the text the
                  \* server returned for slide i of region id
    errorMsg,     \* the error shown, in the same form
    inflight,     \* the calls of handleSummarize that have not returned, each
                  \* with the region and slide it was made for and its stage
    nPan,         \* drag moves applied to pan so far
    nInt          \* animations superseded in flight so far

vars == <<topology, width, height, selectedId, zoom, pan, pending,
          dragging, isPanning, startPt, last, clicked, mounted, pressView,
          fuelLoaded, stateRow, demandMWh, solarUnits, windUnits,
          slide, renderSlide, summarizing, summary, errorMsg, inflight,
          nPan, nInt>>

view  == <<zoom, pan>>
refs  == <<dragging, isPanning, startPt, last>>

\* The state of the planner; the actions of the map leave it as it is.
planVars == <<fuelLoaded, stateRow, demandMWh, solarUnits, windUnits>>

\* The state of the carousel and of the summary.
galleryVars == <<slide, renderSlide, summarizing, summary, errorMsg, inflight>>

\* The state of the map.
mapVars == <<topology, width, height, selectedId, zoom, pan, pending,
             dragging, isPanning, startPt, last, clicked, mounted, pressView,
             nPan, nInt>>

\* ---------------------------------------------------------------- effects

\* Mutant of cleanupFrame: the effect returns no cleanup, so the callback of
\* the superseded run stays scheduled.
cleanupKeepsFrame(pend) == {[c EXCEPT !.cur = FALSE] : c \in pend}

\* The cleanup of the animate effect: cancelAnimationFrame(frame).
cleanupFrame(pend) == {c \in pend : ~c.cur}

\* The animate effect, run after a render with the values sel, w, h, z, p:
\* the cleanup of the previous run, then the new run.
animateEffect(loaded, sel, w, h, z, p, pend) ==
    IF ~loaded
    THEN pend
    ELSE LET t == targetOf(sel, w, h)
         IN  cleanupFrame(pend) \cup
             {[z0 |-> z, p0 |-> p, z1 |-> t.z, p1 |-> t.p, el |-> 0, cur |-> TRUE]}

\* The base-view effect: the zoom and pan it leaves.
baseViewEffect(loaded, sel, w, h, z, p) ==
    IF ~loaded \/ sel # NULL
    THEN [zoom |-> z, pan |-> p]
    ELSE [zoom |-> BASE_ZOOM, pan |-> basePan(w, h)]

\* The render after selectedId, the topology or the size changed, with its
\* effects, in the order the component declares them.
Rerender(loaded, sel, w, h) ==
    LET v == baseViewEffect(loaded, sel, w, h, zoom, pan)
    IN  /\ zoom' = v.zoom
        /\ pan' = v.pan
        /\ pending' = animateEffect(loaded, sel, w, h, zoom, pan, pending)
        /\ nInt' = IF pending # {} THEN nInt + 1 ELSE nInt
        /\ pressView' = NoView
        /\ UNCHANGED nPan

\* The runs explored: up to MaxPanMoves drag moves when no animation is
\* superseded, up to MixedPanMoves when up to MaxInterrupts are.
CanRetarget == pending = {} \/ (nInt < MaxInterrupts /\ nPan <= MixedPanMoves)
CanPan == nPan < MaxPanMoves /\ (nInt = 0 \/ nPan < MixedPanMoves)

\* ---------------------------------------------------------------- actions

Init ==
    /\ topology = FALSE
    /\ width = INIT_WIDTH
    /\ height = INIT_HEIGHT
    /\ selectedId = NULL
    /\ zoom = BASE_ZOOM
    /\ pan = [x |-> 0, y |-> 0]
    /\ pending = {}
    /\ dragging = FALSE
    /\ isPanning = FALSE
    /\ startPt = NoPoint
    /\ last = NoPoint
    /\ clicked = NULL
    /\ mounted = TRUE
    /\ pressView = NoView
    /\ fuelLoaded = FALSE
    /\ stateRow = NoRow
    /\ demandMWh = 250000
    /\ solarUnits = 0
    /\ windUnits = 0
    /\ slide = 0
    /\ renderSlide = 0
    /\ summarizing = FALSE
    /\ summary = NoText
    /\ errorMsg = NoText
    /\ inflight = {}
    /\ nPan = 0
    /\ nInt = 0

\* The fetch of the topology resolves: setTopology.
LoadTopology ==
    /\ mounted
    /\ ~topology
    /\ topology' = TRUE
    /\ Rerender(TRUE, selectedId, width, height)
    /\ UNCHANGED <<planVars, galleryVars>>
    /\ UNCHANGED <<width, height, selectedId, refs, clicked, mounted>>

\* The ResizeObserver callback of useSize.
Resize(w) ==
    LET h == Max(MIN_HEIGHT, w)
    IN  /\ mounted
        /\ <<w, h>> # <<width, height>>
        /\ CanRetarget
        /\ width' = w
        /\ height' = h
        /\ Rerender(topology, selectedId, w, h)
        /\ UNCHANGED <<planVars, galleryVars>>
        /\ UNCHANGED <<topology, selectedId, refs, clicked, mounted>>

onPointerDown(pt) ==
    /\ mounted
    /\ dragging' = FALSE
    /\ isPanning' = FALSE
    /\ last' = pt
    /\ startPt' = pt
    /\ pressView' = IF pending = {} THEN [zoom |-> zoom, pan |-> pan] ELSE NoView
    /\ UNCHANGED <<planVars, galleryVars>>
    /\ UNCHANGED <<topology, width, height, selectedId, view, pending, clicked,
                   mounted, nPan, nInt>>

\* Mutant of BeyondThreshold: any displacement starts a drag.
BeyondThresholdAnyMove(pt, from) ==
    (pt[1] - from[1]) * (pt[1] - from[1]) + (pt[2] - from[2]) * (pt[2] - from[2]) > 0

\* Mutant of BeyondThreshold: the comparison is not strict.
BeyondThresholdInclusive(pt, from) ==
    (pt[1] - from[1]) * (pt[1] - from[1]) + (pt[2] - from[2]) * (pt[2] - from[2])
        >= DRAG_THRESHOLD * DRAG_THRESHOLD

\* Math.hypot(sx, sy) > DRAG_THRESHOLD
BeyondThreshold(pt, from) ==
    (pt[1] - from[1]) * (pt[1] - from[1]) + (pt[2] - from[2]) * (pt[2] - from[2])
        > DRAG_THRESHOLD * DRAG_THRESHOLD

\* Mutant of panDelta: the raw delta, not divided by zoom.
panDeltaNoZoom(raw, z) == raw * Unit

\* dxRaw / zoom, in thousandths of a pixel.
panDelta(raw, z) == Quot(raw * Unit * Unit, z)

\* The first if of onPointerMove takes its branch: this move starts the drag.
startsDrag(pt) == ~dragging /\ startPt # NoPoint /\ BeyondThreshold(pt, startPt)

\* Mutant of panningAt: the threshold is tested anew on every move instead
\* of being latched.
panningAtUnlatched(pt) == startPt # NoPoint /\ BeyondThreshold(pt, startPt)

\* isPanning.current when onPointerMove tests it.
panningAt(pt) == isPanning \/ startsDrag(pt)

\* Mutant of onPointerMove: last.current is advanced by every move, also
\* by the moves of a press that has not become a drag.
onPointerMoveAdvancesLast(pt) ==
    /\ mounted
    /\ last # NoPoint
    /\ dragging' = (dragging \/ startsDrag(pt))
    /\ isPanning' = panningAt(pt)
    /\ last' = pt
    /\ IF panningAt(pt)
       THEN /\ CanPan
            /\ pan' = [x |-> pan.x + panDelta(pt[1] - last[1], zoom),
                       y |-> pan.y + panDelta(pt[2] - last[2], zoom)]
            /\ nPan' = nPan + 1
       ELSE UNCHANGED <<pan, nPan>>
    /\ UNCHANGED <<planVars, galleryVars, pressView>>
    /\ UNCHANGED <<topology, width, height, selectedId, zoom, pending,
                   startPt, clicked, mounted, nInt>>

onPointerMove(pt) ==
    /\ mounted
    /\ last # NoPoint
    /\ dragging' = (dragging \/ startsDrag(pt))
    /\ isPanning' = panningAt(pt)
    /\ IF panningAt(pt)
       THEN /\ CanPan
            /\ last' = pt
            /\ pan' = [x |-> pan.x + panDelta(pt[1] - last[1], zoom),
                       y |-> pan.y + panDelta(pt[2] - last[2], zoom)]
            /\ nPan' = nPan + 1
       ELSE UNCHANGED <<last, pan, nPan>>
    /\ UNCHANGED <<planVars, galleryVars, pressView>>
    /\ UNCHANGED <<topology, width, height, selectedId, zoom, pending,
                   startPt, clicked, mounted, nInt>>

\* The effects that depend on selectedId alone, after the render that
\* follows a click which left the selection sel: setSlide(0), and
\* setSummary("") with setErrorMsg(""); that render itself still has the old
\* slide.
selectionEffects(sel) ==
    /\ IF sel # selectedId
       THEN /\ renderSlide' = slide
            /\ slide' = 0
            /\ summary' = NoText
            /\ errorMsg' = NoText
       ELSE UNCHANGED <<renderSlide, slide, summary, errorMsg>>
    /\ UNCHANGED <<summarizing, inflight>>

\* Mutant of handleStateClick: the click always selects, it never toggles off.
handleStateClickSelects(id, drag, cur) ==
    IF drag THEN cur ELSE id

\* handleStateClick(id) with dragging.current = drag and selectedId = cur:
\* the selectedId it leaves.
handleStateClick(id, drag, cur) ==
    IF drag THEN cur ELSE IF cur = id THEN NULL ELSE id

\* Mutant of onPointerUp: last.current is not cleared.
onPointerUpKeepsLast(over) ==
    /\ mounted
    /\ isPanning' = FALSE
    /\ dragging' = FALSE
    /\ startPt' = NoPoint
    /\ IF over # NULL /\ topology /\ startPt # NoPoint
       THEN LET sel == handleStateClick(over, dragging', selectedId)
            IN  /\ clicked' = over
                /\ selectedId' = sel
                /\ selectionEffects(sel)
                /\ IF sel # selectedId
                   THEN /\ CanRetarget
                        /\ Rerender(topology, sel, width, height)
                   ELSE /\ pressView' = NoView
                        /\ UNCHANGED <<view, pending, nPan, nInt>>
       ELSE /\ clicked' = NULL
            /\ pressView' = NoView
            /\ UNCHANGED <<selectedId, view, pending, galleryVars, nPan, nInt>>
    /\ UNCHANGED planVars
    /\ UNCHANGED <<topology, width, height, mounted, last>>

\* Mutant of onPointerUp: isPanning.current and last.current are not cleared.
onPointerUpKeepsPanning(over) ==
    /\ mounted
    /\ dragging' = FALSE
    /\ startPt' = NoPoint
    /\ IF over # NULL /\ topology /\ startPt # NoPoint
       THEN LET sel == handleStateClick(over, dragging', selectedId)
            IN  /\ clicked' = over
                /\ selectedId' = sel
                /\ selectionEffects(sel)
                /\ IF sel # selectedId
                   THEN /\ CanRetarget
                        /\ Rerender(topology, sel, width, height)
                   ELSE /\ pressView' = NoView
                        /\ UNCHANGED <<view, pending, nPan, nInt>>
       ELSE /\ clicked' = NULL
            /\ pressView' = NoView
            /\ UNCHANGED <<selectedId, view, pending, galleryVars, nPan, nInt>>
    /\ UNCHANGED planVars
    /\ UNCHANGED <<topology, width, height, mounted, last, isPanning>>

\* The release of the pointer: onPointerUp on the svg, then the click event
\* the browser dispatches to the region the pointer was pressed and released
\* on (over), when there is one.
onPointerUp(over) ==
    /\ mounted
    /\ isPanning' = FALSE
    /\ dragging' = FALSE
    /\ last' = NoPoint
    /\ startPt' = NoPoint
    /\ IF over # NULL /\ topology /\ startPt # NoPoint
       THEN LET sel == handleStateClick(over, dragging', selectedId)
            IN  /\ clicked' = over
                /\ selectedId' = sel
                /\ selectionEffects(sel)
                /\ IF sel # selectedId
                   THEN /\ CanRetarget
                        /\ Rerender(topology, sel, width, height)
                   ELSE /\ pressView' = NoView
                        /\ UNCHANGED <<view, pending, nPan, nInt>>
       ELSE /\ clicked' = NULL
            /\ pressView' = NoView
            /\ UNCHANGED <<selectedId, view, pending, galleryVars, nPan, nInt>>
    /\ UNCHANGED planVars
    /\ UNCHANGED <<topology, width, height, mounted>>

\* Mutant of tick: t is not clamped to [0, 1].
tickNoClamp(c, el) ==
    [zoom |-> lerp(c.z0, c.z1, el),
     pan  |-> [x |-> lerp(c.p0.x, c.p1.x, el), y |-> lerp(c.p0.y, c.p1.y, el)]]

\* tick(now) of one callback, now - t0 = el: the zoom and pan it sets.
tick(c, el) ==
    LET t == clamp(el, 0, duration)
    IN  [zoom |-> lerp(c.z0, c.z1, t),
         pan  |-> [x |-> lerp(c.p0.x, c.p1.x, t), y |-> lerp(c.p0.y, c.p1.y, t)]]

\* if (t < 1) frame = requestAnimationFrame(tick)
reschedules(el) == clamp(el, 0, duration) < duration

\* An animation frame dt ms later: every pending callback runs with the
\* frame's timestamp; lastRun is the one that runs last.
Frame(dt) ==
    /\ pending # {}
    /\ \E lastRun \in pending :
          LET v == tick(lastRun, lastRun.el + dt)
          IN  /\ zoom' = v.zoom
              /\ pan' = v.pan
    /\ pending' = {[c EXCEPT !.el = c.el + dt] : c \in {d \in pending : reschedules(d.el + dt)}}
    /\ UNCHANGED <<planVars, galleryVars, pressView>>
    /\ UNCHANGED <<topology, width, height, selectedId, refs, clicked, mounted,
                   nPan, nInt>>

\* Mutant of Unmount: the cleanup of the animate effect is not run.
UnmountKeepsFrame ==
    /\ mounted
    /\ mounted' = FALSE
    /\ UNCHANGED <<planVars, galleryVars, pressView>>
    /\ UNCHANGED <<topology, width, height, selectedId, view, pending, refs,
                   clicked, nPan, nInt>>

\* The component is unmounted: React runs the cleanup of every effect, which
\* disconnects the ResizeObserver, marks the fetch aborted and cancels the
\* frame the animate effect holds; the handlers of the svg go with it.
Unmount ==
    /\ mounted
    /\ mounted' = FALSE
    /\ pending' = cleanupFrame(pending)
    /\ UNCHANGED <<planVars, galleryVars, pressView>>
    /\ UNCHANGED <<topology, width, height, selectedId, view, refs, clicked,
                   nPan, nInt>>

Next ==
    \/ LoadTopology
    \/ \E w \in Widths : Resize(w)
    \/ \E pt \in PressPoints : onPointerDown(pt)
    \/ \E pt \in Points : onPointerMove(pt)
    \/ \E over \in Regions \cup {NULL} : onPointerUp(over)
    \/ \E dt \in FrameDts : Frame(dt)

Spec == Init /\ [][Next]_vars

\* ------------------------------------- clicks on their own, and the unmount

\* The click event of a region on its own, with the refs as they are:
\* handleStateClick(id) and the render it causes.  The id is drawn from Ids,
\* which has an id that no feature carries.
Click(id) ==
    LET sel == handleStateClick(id, dragging, selectedId)
    IN  /\ mounted
        /\ topology
        /\ clicked' = id
        /\ selectedId' = sel
        /\ selectionEffects(sel)
        /\ IF sel # selectedId
           THEN /\ CanRetarget
                /\ Rerender(topology, sel, width, height)
           ELSE UNCHANGED <<view, pending, pressView, nPan, nInt>>
        /\ UNCHANGED planVars
        /\ UNCHANGED <<topology, width, height, refs, mounted>>

\* The component from its mount to its unmount, the selection driven by
\* clicks alone.
ClickNext ==
    \/ LoadTopology
    \/ \E w \in Widths : Resize(w)
    \/ \E id \in Ids : Click(id)
    \/ \E dt \in FrameDts : Frame(dt)
    \/ Unmount

ClickSpec == Init /\ [][ClickNext]_vars

\* The browser keeps producing animation frames while a callback is pending,
\* and the timestamps of its frames advance.
FairClickSpec == ClickSpec /\ WF_vars(\E dt \in FrameDts \ {0} : Frame(dt))

\* ------------------------------------------------------------ the planner

\* The effect that keeps the sliders in bounds when a dynamic maximum
\* changed: the units it leaves, with the baseline b of the new render.
clampUnits(b) ==
    /\ solarUnits' = clamp(solarUnits, 0, dynamicMaxSolarUnits(b, demandMWh))
    /\ windUnits' = clamp(windUnits, 0, dynamicMaxWindUnits(b, demandMWh))

\* The planner is mounted anew (its key changed with the selection): its
\* state starts over, with the row of the newly selected state and the
\* demandMWh its parent passes.
MountPlanner(row, demand) ==
    /\ stateRow' = row
    /\ demandMWh' = demand
    /\ fuelLoaded' = FALSE
    /\ solarUnits' = 0
    /\ windUnits' = 0
    /\ UNCHANGED <<mapVars, galleryVars>>

\* The fetch of the CSV resolves: setFuelMap, then the render with the
\* baseline and the effect that clamps the sliders.
LoadFuelMap ==
    /\ ~fuelLoaded
    /\ fuelLoaded' = TRUE
    /\ clampUnits(baselineOf(TRUE, stateRow))
    /\ UNCHANGED <<stateRow, demandMWh>>
    /\ UNCHANGED <<mapVars, galleryVars>>

\* onChange of the solar slider: clamp(Number(e.target.value), min, max).
setSolarUnits(v) ==
    /\ solarUnits' =
           clamp(v, 0, dynamicMaxSolarUnits(baselineOf(fuelLoaded, stateRow), demandMWh))
    /\ UNCHANGED <<fuelLoaded, stateRow, demandMWh, windUnits>>
    /\ UNCHANGED <<mapVars, galleryVars>>

\* onChange of the wind slider.
setWindUnits(v) ==
    /\ windUnits' =
           clamp(v, 0, dynamicMaxWindUnits(baselineOf(fuelLoaded, stateRow), demandMWh))
    /\ UNCHANGED <<fuelLoaded, stateRow, demandMWh, solarUnits>>
    /\ UNCHANGED <<mapVars, galleryVars>>

PlannerNext ==
    \/ \E row \in Rows, demand \in Demands : MountPlanner(row, demand)
    \/ LoadFuelMap
    \/ \E v \in SliderInputs : setSolarUnits(v)
    \/ \E v \in SliderInputs : setWindUnits(v)

PlannerSpec == Init /\ [][PlannerNext]_vars

\* ------------------------------------------------- the gallery's actions

\* slides.length of the render.
slidesLength == ImageCount(selectedId)

\* to(i), from an arrow, a swipe or a dot, none of which acts while
\* summarizing or without slides; then the effect that depends on slide,
\* which clears a summary or an error that is shown.
to(i) ==
    /\ mounted
    /\ slidesLength > 0
    /\ ~summarizing
    /\ slide' = wrapSlide(i, slidesLength)
    /\ IF slide' # slide /\ (summary # NoText \/ errorMsg # NoText)
       THEN summary' = NoText /\ errorMsg' = NoText
       ELSE UNCHANGED <<summary, errorMsg>>
    /\ UNCHANGED <<renderSlide, summarizing, inflight>>
    /\ UNCHANGED <<mapVars, planVars>>

next == to(slide + 1)

prev == to(slide - 1)

\* Mutant of handleSummarize: a call is made also while another one has not
\* returned.
handleSummarizeReentrant ==
    /\ mounted
    /\ slidesLength > 0
    /\ Cardinality(inflight) < 2
    /\ summarizing' = TRUE
    /\ errorMsg' = NoText
    /\ summary' = NoText
    /\ inflight' = inflight \cup
           {[sel |-> selectedId, slide |-> slide, stage |-> "imageUrl"]}
    /\ UNCHANGED <<slide, renderSlide>>
    /\ UNCHANGED <<mapVars, planVars>>

\* handleSummarize up to its first await: it returns at once without slides
\* or while summarizing; the request is made for slides[slide].
handleSummarize ==
    /\ mounted
    /\ slidesLength > 0
    /\ ~summarizing
    /\ summarizing' = TRUE
    /\ errorMsg' = NoText
    /\ summary' = NoText
    /\ inflight' = inflight \cup
           {[sel |-> selectedId, slide |-> slide, stage |-> "imageUrl"]}
    /\ UNCHANGED <<slide, renderSlide>>
    /\ UNCHANGED <<mapVars, planVars>>

\* The first attempt returns a summary: setSummary, return, and the finally.
firstAttemptSummary(q) ==
    /\ mounted
    /\ q.stage = "imageUrl"
    /\ summary' = <<q.sel, q.slide>>
    /\ summarizing' = FALSE
    /\ inflight' = inflight \ {q}
    /\ UNCHANGED <<slide, renderSlide, errorMsg>>
    /\ UNCHANGED <<mapVars, planVars>>

\* The first attempt fails, times out or has no summary: the sequence goes on
\* to the base64 request.
firstAttemptFails(q) ==
    /\ mounted
    /\ q.stage = "imageUrl"
    /\ inflight' = (inflight \ {q}) \cup {[q EXCEPT !.stage = "imageBase64"]}
    /\ UNCHANGED <<slide, renderSlide, summarizing, summary, errorMsg>>
    /\ UNCHANGED <<mapVars, planVars>>

\* The fallback returns a summary.
fallbackSummary(q) ==
    /\ mounted
    /\ q.stage = "imageBase64"
    /\ summary' = <<q.sel, q.slide>>
    /\ summarizing' = FALSE
    /\ inflight' = inflight \ {q}
    /\ UNCHANGED <<slide, renderSlide, errorMsg>>
    /\ UNCHANGED <<mapVars, planVars>>

\* The fallback throws (kind "error") or is aborted by the timer (kind
\* "timeout"): the catch sets the error message, then the finally.
fallbackFails(q, kind) ==
    /\ mounted
    /\ q.stage = "imageBase64"
    /\ errorMsg' = <<q.sel, q.slide, kind>>
    /\ summarizing' = FALSE
    /\ inflight' = inflight \ {q}
    /\ UNCHANGED <<slide, renderSlide, summary>>
    /\ UNCHANGED <<mapVars, planVars>>

\* The gallery in use: regions are clicked, the carousel is turned, summaries
\* are requested and their responses arrive; a frame that ends the animation.
GalleryNext ==
    \/ LoadTopology
    \/ \E id \in GalleryIds : Click(id)
    \/ Frame(duration)
    \/ next
    \/ prev
    \/ \E i \in 0 .. (slidesLength - 1) : to(i)
    \/ handleSummarize
    \/ \E q \in inflight : firstAttemptSummary(q)
    \/ \E q \in inflight : firstAttemptFails(q)
    \/ \E q \in inflight : fallbackSummary(q)
    \/ \E q \in inflight, kind \in {"error", "timeout"} : fallbackFails(q, kind)

GallerySpec == Init /\ [][GalleryNext]_vars

\* ================================================================ claims

\* Squared Euclidean distance of two pointer positions.
Dist2(a, b) == (a[1] - b[1]) * (a[1] - b[1]) + (a[2] - b[2]) * (a[2] - b[2])

\* The selection after a click on region r is taken as a toggle.
Toggle(cur, r) == IF cur = r THEN NULL ELSE r

\* The configured cap: 2.4 for the small regions, 3.0 otherwise.
capFor(id) == IF id \in MicroIds THEN MICRO_CAP ELSE DEFAULT_CAP

\* This step is the frame in which the animation in flight reaches t = 1.
Completes == pending # {} /\ pending' = {}

\* This step is a drag move that was applied to pan.
PanMove == nPan' = nPan + 1

\* The box b, scaled by z and translated by p, lies in [0, w] x [0, h].
Contained(z, p, b, w, h) ==
    /\ 0 <= p.x + z * b.x0
    /\ p.x + z * b.x1 <= w * Unit
    /\ 0 <= p.y + z * b.y0
    /\ p.y + z * b.y1 <= h * Unit

\* The centre of the box b maps to the centre of the w x h viewport under
\* translate(p) scale(z).
Centred(z, p, b, w, h) ==
    /\ p.x + Quot(z * (b.x0 + b.x1), 2) = Quot(w * Unit, 2)
    /\ p.y + Quot(z * (b.y0 + b.y1), 2) = Quot(h * Unit, 2)

\* min((W - 2 * 80) / bw, (H - 2 * 80) / bh) * 0.9 for the box b, its sides
\* floored at one pixel.
FitZoom(b, w, h) ==
    Min(Quot((w - 2 * margin) * dampenNum * Unit, Max(1, b.x1 - b.x0) * dampenDen),
        Quot((h - 2 * margin) * dampenNum * Unit, Max(1, b.y1 - b.y0) * dampenDen))

\* ---- C1
\* C1 (as claimed): a gesture in which some move went farther than T from
\* the press point leaves selectedId unchanged at the release, the click
\* delivered after pointer-up included.
C1_NoClickAfterDrag ==
    [][(dragging /\ startPt' = NoPoint) => selectedId' = selectedId]_vars

\* ---- C2
\* C2: in a gesture whose moves have all stayed strictly closer than T to the
\* press point, a move starts a drag or changes pan only if it goes farther
\* than T, and the release toggles the selection of the region that
\* receives the click.
C2_ClickNeverPan ==
    [][~dragging =>
          /\ (PanMove \/ dragging' \/ isPanning') =>
                 Dist2(last', startPt) > DRAG_THRESHOLD * DRAG_THRESHOLD
          /\ (startPt # NoPoint /\ startPt' = NoPoint /\ clicked' # NULL) =>
                 selectedId' = Toggle(selectedId, clicked')]_vars

\* A release resolved to a click that selected the region, and no move of
\* the run was ever applied to pan.
C2_Witness == clicked # NULL /\ selectedId = clicked /\ nPan = 0

\* ---- C3
\* C3 (as claimed): in every reachable state zoom lies in
\* [B, capFor(selectedId)].
C3_ZoomWithinCapAlways == BASE_ZOOM <= zoom /\ zoom <= capFor(selectedId)

\* C3 (amended): zoom is never below B; when no animation is in flight it is
\* at most capFor(selectedId); while one is in flight it is at most the
\* larger of capFor(selectedId) and the zoom that animation started from.
C3_ZoomWithinCapAtRest ==
    /\ BASE_ZOOM <= zoom
    /\ pending = {} => zoom <= capFor(selectedId)
    /\ \A c \in pending : zoom <= Max(c.z0, capFor(selectedId))

\* A frame of the animation toward a small region, started from a zoom above
\* that region's cap.
C3_Witness ==
    /\ selectedId \in MicroIds
    /\ \E c \in pending : c.el > 0 /\ c.z0 > MICRO_CAP
    /\ zoom > MICRO_CAP

\* ---- C4
\* C4: every frame callback that is pending was scheduled for the current
\* selection and size: its target is the target of selectedId, so no
\* callback of a superseded animation is left to run.
C4_NoStaleTick ==
    \A c \in pending :
        /\ c.z1 = targetOf(selectedId, width, height).z
        /\ c.p1 = targetOf(selectedId, width, height).p

\* An animation was superseded in flight by one with another target, and
\* the new one is pending.
C4_Witness ==
    /\ nInt > 0
    /\ \E c \in pending : c.z1 # c.z0 /\ c.el = 0

\* ---- C5
\* C5 (as claimed): when the animation toward a selected region completes,
\* the region's box under the final transform lies in [0, W] x [0, H] and
\* the final zoom is in [B, capFor(id)].
C5_BoxInsideViewport ==
    [][(Completes /\ selectedId' \in Regions) =>
          /\ Contained(zoom', pan', pathBounds(selectedId', width', height'),
                       width', height')
          /\ BASE_ZOOM <= zoom' /\ zoom' <= capFor(selectedId')]_vars

\* C5 (amended): when the animation toward a selected region completes, the
\* final zoom is in [B, capFor(id)] and the centre of the region's box is at
\* the centre of the viewport; the box lies in [0, W] x [0, H] whenever the
\* dampened fit is at least B.
C5_BoxInsideWhenFitAllows ==
    [][(Completes /\ selectedId' \in Regions) =>
          LET b == pathBounds(selectedId', width', height')
          IN  /\ BASE_ZOOM <= zoom' /\ zoom' <= capFor(selectedId')
              /\ Centred(zoom', pan', b, width', height')
              /\ FitZoom(b, width', height') >= BASE_ZOOM =>
                     Contained(zoom', pan', b, width', height')]_vars

\* An animation toward a region has completed with the box inside the
\* viewport and the zoom below the cap (the fit decided it).
C5_Witness ==
    /\ selectedId \in Regions
    /\ pending = {}
    /\ nPan = 0
    /\ BASE_ZOOM < zoom /\ zoom < capFor(selectedId)
    /\ Contained(zoom, pan, pathBounds(selectedId, width, height), width, height)

\* ---- C6
\* C6: the animation scheduled for a selected region has the target zoom
\* clamp(min((W - 160) / bw, (H - 160) / bh) * 0.9, 1.15, capFor(id)) and the
\* target pan (W / 2 - z1 * cx, H / 2 - z1 * cy), which maps the centre of
\* the box to the centre of the viewport.
C6_TargetOfSelection ==
    selectedId \in Regions =>
        \A c \in pending :
            LET b  == pathBounds(selectedId, width, height)
                z1 == clamp(FitZoom(b, width, height), BASE_ZOOM, capFor(selectedId))
            IN  /\ c.z1 = z1
                /\ c.p1.x = Quot(width * Unit, 2) - Quot(z1 * (b.x0 + b.x1), 2)
                /\ c.p1.y = Quot(height * Unit, 2) - Quot(z1 * (b.y0 + b.y1), 2)
                /\ Centred(c.z1, c.p1, b, width, height)

\* The animation toward a region whose fit, not a clamp, gives the zoom:
\* 936 / 468 = 2.0 in the 1200 x 900 container.
C6_Witness ==
    /\ selectedId = "48" /\ width = INIT_WIDTH /\ height = INIT_HEIGHT
    /\ \E c \in pending : c.z1 = 2 * Unit

\* ---- C7
\* C7: the animation that completes with nothing selected ends at zoom B and
\* at the pan (W - W * B) / 2, (H - H * B) / 2, which keeps the centre of the
\* container where it is.
C7_DeselectEndsAtBaseline ==
    [][(Completes /\ selectedId' = NULL) =>
          /\ zoom' = BASE_ZOOM
          /\ 2 * pan'.x + BASE_ZOOM * width' = width' * Unit
          /\ 2 * pan'.y + BASE_ZOOM * height' = height' * Unit]_vars

\* The latest release clicked the selected region off and the animation that
\* followed has completed at the baseline.
C7_Witness ==
    /\ clicked # NULL /\ selectedId = NULL /\ pending = {}
    /\ zoom = BASE_ZOOM
    /\ 2 * pan.x + BASE_ZOOM * width = width * Unit

\* ---- C8
\* C8 (as claimed): a drag move that arrives while an animation is in flight
\* does not modify pan.
C8_NoPanWhileAnimating ==
    [][(pending # {} /\ PanMove) => pan' = pan]_vars

\* ---- C9
\* C9: a drag move that is applied adds (pointer delta since lastPoint) / zoom
\* to pan on each axis and leaves zoom unchanged.
C9_PanByDeltaOverZoom ==
    [][PanMove =>
          /\ zoom' = zoom
          /\ pan'.x = pan.x + Quot((last'[1] - last[1]) * Unit * Unit, zoom)
          /\ pan'.y = pan.y + Quot((last'[2] - last[2]) * Unit * Unit, zoom)]_vars

\* A drag of 10 px at zoom 2.0, at rest on a selected region: pan has moved
\* by 5 px from the target the animation ended at.
C9_Witness ==
    /\ selectedId = "48" /\ width = INIT_WIDTH /\ height = INIT_HEIGHT
    /\ pending = {} /\ zoom = 2 * Unit
    /\ nPan = 1 /\ last = <<10, 0>>
    /\ pan.x = targetOf("48", INIT_WIDTH, INIT_HEIGHT).p.x + 5 * Unit
    /\ pan.y = targetOf("48", INIT_WIDTH, INIT_HEIGHT).p.y

\* ---- C10
\* C10: once the gesture is Dragging, every move, wherever it goes, keeps it
\* Dragging, adds its delta from lastPoint over zoom to pan and sets
\* lastPoint to the new point.
C10_DraggingStays ==
    (dragging /\ CanPan) =>
        \A pt \in Points :
            LET moved == /\ dragging' /\ isPanning'
                         /\ last' = pt
                         /\ startPt' = startPt
                         /\ pan'.x = pan.x + Quot((pt[1] - last[1]) * Unit * Unit, zoom)
                         /\ pan'.y = pan.y + Quot((pt[2] - last[2]) * Unit * Unit, zoom)
            IN  /\ ENABLED (onPointerMove(pt) /\ moved)
                /\ ~ENABLED (onPointerMove(pt) /\ ~moved)

\* A drag that went 10 px away and came back to within T of the press
\* point, both moves applied to pan.
C10_Witness ==
    /\ dragging /\ nPan = 2 /\ nInt = 0
    /\ startPt = <<0, 0>> /\ last = <<2, 2>>
    /\ pending = {} /\ selectedId = NULL
    /\ pan.x = basePan(width, height).x + Quot(2 * Unit * Unit, zoom)

\* ---- C11
\* This step is a release that delivered a click to region r.
ClickOn(r) == startPt # NoPoint /\ startPt' = NoPoint /\ clicked' = r

\* The frame callback scheduled by this step has the baseline as its target:
\* zoom B and the pan that keeps the whole scene centred.
TargetsBaseline ==
    /\ pending' # {}
    /\ \A c \in pending' :
           c.el = 0 =>
               /\ c.z1 = BASE_ZOOM
               /\ 2 * c.p1.x + BASE_ZOOM * width' = width' * Unit
               /\ 2 * c.p1.y + BASE_ZOOM * height' = height' * Unit

\* C11 (as claimed): from every starting state, a click on region X followed
\* by the next click, again on X, ends with nothing selected and the
\* baseline as the target.
C11_TwiceIsNoneFromAnyState ==
    [][\A r \in Regions :
          (clicked = r /\ ClickOn(r)) =>
              (selectedId' = NULL /\ TargetsBaseline)]_vars

\* C11 (amended): a click that selected region X followed by the next click,
\* again on X, ends with nothing selected and the baseline as the target;
\* that is, from every starting state in which X is not the selected region.
C11_SelectThenAgainIsNone ==
    [][\A r \in Regions :
          (clicked = r /\ selectedId = r /\ ClickOn(r)) =>
              (selectedId' = NULL /\ TargetsBaseline)]_vars

\* The second of two clicks on the region at zoom 2.0 has just deselected it:
\* the animation back to the baseline is scheduled and has not run.
C11_Witness ==
    /\ clicked = "48" /\ selectedId = NULL /\ startPt = NoPoint
    /\ \E c \in pending : c.el = 0 /\ c.z0 = 2 * Unit /\ c.z1 = BASE_ZOOM

\* ---- C12
\* t of a tick el ms after the start of its animation, in thousandths.
TOf(el) == Max(0, Min(Unit, (el * Unit) \div 350))

\* The callbacks c and d belong to the same animation.
SameRun(c, d) == c.z0 = d.z0 /\ c.p0 = d.p0 /\ c.z1 = d.z1 /\ c.p1 = d.p1

\* This step is an animation frame: the pending callback ran and nothing
\* else happened.
FrameStep ==
    /\ pending # {}
    /\ UNCHANGED <<topology, width, height, selectedId, refs, clicked, mounted,
                   nPan, nInt>>

\* C12: across the ticks of one animation t never decreases; a tick with
\* t < 1 schedules the next frame, and the first tick at or after 350 ms has
\* t = 1, sets zoom and pan to the target, schedules nothing and leaves the
\* controller idle; with frames that keep coming, every animation in flight
\* is followed by a state with none.
C12_TickReachesOne ==
    /\ [][FrameStep =>
             \A c \in pending :
                 \/ \E d \in pending' :
                        /\ SameRun(c, d)
                        /\ TOf(c.el) <= TOf(d.el) /\ TOf(d.el) < Unit
                 \/ /\ pending' = {}
                    /\ zoom' = c.z1 /\ pan' = c.p1]_vars
    /\ [](\A c \in pending : c.el < 350)
    /\ (pending # {}) ~> (pending = {})

\* Half-way through the animation from the baseline to the region at zoom
\* 2.0: one tick has run at t = 0.5 and the next frame is scheduled.
C12_Witness ==
    /\ selectedId = "48" /\ nPan = 0 /\ nInt = 0
    /\ \E c \in pending : c.el = 175 /\ c.z0 = BASE_ZOOM /\ c.z1 = 2 * Unit
    /\ zoom = 1575

\* ---- C13
\* C13: at every moment at most one frame callback of the controller is
\* pending, whatever the interleaving of selection changes, resizes and
\* frames.
C13_OneLiveAnimation == Cardinality(pending) <= 1

\* An animation was superseded in flight and the one that replaced it has
\* ticked and is the only one pending.
C13_Witness ==
    /\ nInt > 0
    /\ \E c \in pending : c.el > 0 /\ pending = {c}

\* ---- C14
\* C14: unmounting cancels the pending frame callback: once the component
\* is unmounted no callback is pending, so no tick runs, and zoom and pan are
\* never written again.
C14_UnmountCancels ==
    [][~mounted' => (pending' = {} /\ (~mounted => view' = view))]_vars

\* The component was unmounted half-way through the animation to the region
\* at zoom 2.0: the view stays where the last tick left it.
C14_Witness ==
    /\ ~mounted /\ pending = {}
    /\ selectedId = "48" /\ nPan = 0 /\ nInt = 0
    /\ zoom = 1575

\* ---- C15
\* C15 (as claimed): a change of the selection, the deselection included,
\* starts the new animation from the live zoom and pan and leaves the live
\* zoom and pan as they are: only the ticks that follow (and drags) change
\* them.
C15_RetargetStartsAtLive ==
    [][(topology /\ selectedId' # selectedId) =>
          /\ \A c \in pending' : c.el = 0 => (c.z0 = zoom /\ c.p0 = pan)
          /\ zoom' = zoom
          /\ pan' = pan]_vars

\* ---- C16
\* The id is one that no loaded region carries.
NotLoaded(id) == id # NULL /\ id \notin Features

\* C16: with a selected id that is not in the loaded region set, the
\* animation scheduled has the no-selection baseline as its target: zoom
\* 1.15 and pan ((W - 1.15 W) / 2, (H - 1.15 H) / 2).
C16_UnknownTargetsBaseline ==
    NotLoaded(selectedId) =>
        \A c \in pending :
            /\ c.z1 = 1150
            /\ 2 * c.p1.x = width * Unit - 1150 * width
            /\ 2 * c.p1.y = height * Unit - 1150 * height

\* From the region at zoom 2.0 the selection went to an id with no feature:
\* the animation scheduled goes from 2.0 to the baseline.
C16_Witness ==
    /\ NotLoaded(selectedId) /\ clicked = selectedId
    /\ \E c \in pending : c.el = 0 /\ c.z0 = 2 * Unit /\ c.z1 = BASE_ZOOM

\* ---- C17
\* C17 (as claimed): with a selected id that is not in the loaded region
\* set the viewport is retained: the animation that the selection started
\* ends with the zoom and pan the view had when it started.
C17_UnknownRetainsView ==
    [][(Completes /\ mounted' /\ NotLoaded(selectedId')) =>
          \A c \in pending : zoom' = c.z0 /\ pan' = c.p0]_vars

\* C17 (amended): with a selected id that is not in the loaded region set
\* the viewport is not retained but animated to the no-selection baseline:
\* the animation ends at zoom 1.15 and pan ((W - 1.15 W) / 2,
\* (H - 1.15 H) / 2), which is the view before the selection only when that
\* was the baseline already.
C17_UnknownEndsAtBaseline ==
    [][(Completes /\ mounted' /\ NotLoaded(selectedId')) =>
          /\ zoom' = 1150
          /\ 2 * pan'.x = width' * Unit - 1150 * width'
          /\ 2 * pan'.y = height' * Unit - 1150 * height']_vars

\* The animation started by the selection of an id with no feature has
\* completed, in the 1200 x 900 container: the view is the baseline.
C17_Witness ==
    /\ NotLoaded(selectedId) /\ clicked = selectedId /\ pending = {}
    /\ width = INIT_WIDTH /\ height = INIT_HEIGHT
    /\ zoom = BASE_ZOOM /\ pan = [x |-> -90000, y |-> -67500]

\* ---- C18
\* The region whose box is 50 x 800 px in the 1200 x 900 container is
\* selected in that container and its animation completes in this step.
TallBoxCompletes ==
    /\ Completes
    /\ width' = 1200 /\ height' = 900
    /\ selectedId' \in Regions
    /\ LET b == pathBounds(selectedId', 1200, 900)
       IN  b.x1 - b.x0 = 50 /\ b.y1 - b.y0 = 800

\* C18 (as claimed): in the 1200 x 900 container the animation to a region
\* whose box is 50 x 800 px ends at the cap capFor(id).
C18_TallBoxEndsAtCap ==
    [][TallBoxCompletes => zoom' = capFor(selectedId')]_vars

\* C18 (amended): in the 1200 x 900 container the animation to a region
\* whose box is 50 x 800 px ends at B = 1.15, below the cap: the dampened fit
\* min(1040 / 50, 740 / 800) * 0.9 = 0.8325 is under B and is clamped up to
\* it.
C18_TallBoxEndsAtBase ==
    [][TallBoxCompletes =>
          /\ (9 * 740 * Unit) \div (10 * 800) < 1150
          /\ zoom' = 1150
          /\ zoom' < capFor(selectedId')]_vars

\* The animation to the 50 x 800 region has completed in the 1200 x 900
\* container: zoom is B and the centre of the box, (631, 446), is at the
\* centre of the viewport.
C18_Witness ==
    /\ selectedId = "02" /\ pending = {} /\ nPan = 0
    /\ width = 1200 /\ height = 900
    /\ zoom = BASE_ZOOM
    /\ pan = [x |-> 600000 - 1150 * 631, y |-> 450000 - 1150 * 446]

\* ---- C19
\* C19 (as claimed): the width and height the projection is fitted with are
\* strictly positive, also after the container collapsed to zero, and the
\* fit extent [padding, width - padding] x [padding, height - padding] is
\* neither empty nor inverted.
C19_FitSizePositive ==
    topology =>
        /\ width > 0 /\ height > 0
        /\ 6 < width - 6
        /\ 6 < height - 6

\* ---- C20
\* The gesture is Idle with every transient field cleared.
GestureIdle ==
    ~dragging /\ ~isPanning /\ startPt = NoPoint /\ last = NoPoint

\* This step looks like a press: both points are set to the same point and
\* the flags are false.
PressStep ==
    startPt' # NoPoint /\ last' = startPt' /\ ~dragging' /\ ~isPanning'

\* This step looks like a move: the press point stays, the last point is a
\* point and no flag is lowered.
MoveStep ==
    /\ startPt' = startPt /\ last' # NoPoint
    /\ dragging => dragging'
    /\ isPanning => isPanning'

\* C20: every pointer-up, from Pressed as from Dragging, leaves the gesture
\* Idle with dragging = false, isPanning = false, startPoint = none and
\* lastPoint = none: a step that changes a gesture field and is neither a
\* press nor a move, or that delivers a click, ends in that state.
C20_PointerUpClearsGesture ==
    [][((refs' # refs /\ ~PressStep /\ ~MoveStep)
          \/ clicked' # clicked \/ selectedId' # selectedId) =>
             GestureIdle']_vars

\* The pointer was released after a drag whose two moves were applied to
\* pan: every field of the gesture is cleared.
C20_Witness ==
    /\ GestureIdle /\ nPan = 2
    /\ clicked = NULL /\ selectedId # NULL

\* ---- C21
\* C21: a pointer-move received while no press is in progress (none since the
\* last release, or none at all) is ignored: no move changes pan, zoom or a
\* field of the gesture.
C21_IdleMoveIgnored ==
    startPt = NoPoint =>
        \A pt \in Points :
            ~ENABLED (onPointerMove(pt) /\ <<view, refs>>' # <<view, refs>>)

\* The pointer was released after a drag that panned once, at rest on a
\* selected region, and the run could apply one more move to pan.
C21_Witness ==
    /\ mounted /\ GestureIdle /\ CanPan
    /\ nPan = 1 /\ pending = {} /\ selectedId = "48"

\* ---- C22
\* The box b has no width or no height.
Degenerate(b) == b.x1 - b.x0 = 0 \/ b.y1 - b.y0 = 0

\* A side of a box as the target computation uses it: at least one pixel.
Floored(side) == IF side < 1 THEN 1 ELSE side

\* C22: for a selected region whose box is degenerate the sides used are
\* floored at 1 px: the target zoom of the animation scheduled is
\* clamp(min((W - 160) / bw, (H - 160) / bh) * 0.9, B, capFor(id)) with the
\* floored sides, a value in [B, capFor(id)], and nothing is divided by zero.
C22_DegenerateBoxFloored ==
    (selectedId \in Features /\ Degenerate(pathBounds(selectedId, width, height))) =>
        \A c \in pending :
            LET b  == pathBounds(selectedId, width, height)
                bw == Floored(b.x1 - b.x0)
                bh == Floored(b.y1 - b.y0)
                sx == Quot((width - 160) * 9 * Unit, bw * 10)
                sy == Quot((height - 160) * 9 * Unit, bh * 10)
                d  == IF sx <= sy THEN sx ELSE sy
            IN  /\ bw > 0 /\ bh > 0
                /\ c.z1 = (IF d < 1150 THEN 1150
                           ELSE IF d > capFor(selectedId) THEN capFor(selectedId)
                           ELSE d)
                /\ 1150 <= c.z1 /\ c.z1 <= capFor(selectedId)

\* The region whose box is a single point is selected in the 1200 x 900
\* container: both sides count as 1 px and the animation scheduled goes to
\* the cap of that region.
C22_Witness ==
    /\ selectedId = PointRegion /\ width = INIT_WIDTH /\ height = INIT_HEIGHT
    /\ Degenerate(pathBounds(PointRegion, INIT_WIDTH, INIT_HEIGHT))
    /\ \E c \in pending : c.el = 0 /\ c.z1 = MICRO_CAP

\* ---- C23
\* The baseline the planner renders with.
baseline == baselineOf(fuelLoaded, stateRow)

\* The mix the planner shows.
shownMix == finalMix(baseline, demandMWh, solarUnits, windUnits)

\* C23: with the solar slider at its dynamic maximum and wind at 0, or the
\* wind slider at its dynamic maximum and solar at 0, fossil left is 0 and
\* unmet demand is 0, whatever the baseline mix and the fallback demand.
C23_OneTechnologyReaches100 ==
    /\ (solarUnits = dynamicMaxSolarUnits(baseline, demandMWh) /\ windUnits = 0) =>
           (shownMix.fossilLeft = 0 /\ shownMix.unmet = 0)
    /\ (windUnits = dynamicMaxWindUnits(baseline, demandMWh) /\ solarUnits = 0) =>
           (shownMix.fossilLeft = 0 /\ shownMix.unmet = 0)

\* With the baseline of 26,400 MWh of fossil only, the solar slider is at
\* its maximum, above the soft cap of 200: exactly the 1000 units needed,
\* and the wind slider is at 0.
C23_Witness ==
    /\ fuelLoaded /\ baseline.has /\ baseline.fossilMWh = 26400 * Cent
    /\ solarUnits = 1000 /\ windUnits = 0
    /\ solarUnits = dynamicMaxSolarUnits(baseline, demandMWh)

\* C24: at most one summarize sequence is in flight: a call of
\* handleSummarize made while summarizing, or without slides, starts nothing,
\* and after every outcome of a sequence (a summary from the first attempt, a
\* summary from the fallback, an error, a timeout) summarizing is false again.
StartsSequence == Cardinality(inflight') > Cardinality(inflight)
EndsSequence == Cardinality(inflight') < Cardinality(inflight)
C24_OneSummarizeInFlight ==
    /\ [](Cardinality(inflight) <= 1 /\ (summarizing <=> inflight # {}))
    /\ [][StartsSequence => ~summarizing /\ slidesLength > 0]_vars
    /\ [][EndsSequence => ~summarizing' /\ inflight' = {}]_vars

\* A sequence has ended in a timeout of its fallback and nothing is in flight.
C24_Witness ==
    /\ errorMsg # NoText
    /\ errorMsg[3] = "timeout"
    /\ ~summarizing
    /\ inflight = {}

\* C25: in every reachable state the live zoom lies between the baseline zoom
\* 1.15 and the absolute maximum 3.0.
C25_ZoomWithinBounds ==
    /\ zoom >= BASE_ZOOM
    /\ zoom <= DEFAULT_CAP

\* An animation towards a region is under way and the zoom is strictly
\* between the two bounds.
C25_Witness ==
    /\ pending # {}
    /\ selectedId # NULL
    /\ zoom > BASE_ZOOM
    /\ zoom < DEFAULT_CAP

\* ---- C26
\* The point pt lies at exactly DRAG_THRESHOLD pixels from the point from.
AtThreshold(pt, from) ==
    (pt[1] - from[1]) * (pt[1] - from[1]) + (pt[2] - from[2]) * (pt[2] - from[2])
        = DRAG_THRESHOLD * DRAG_THRESHOLD

\* C26: the comparison with the threshold is strict: a move at exactly
\* T = 4 px from the press point does not start a drag and changes no pan,
\* and the release of a gesture that never became a drag is a click, which
\* toggles the region under the pointer.
C26_ThresholdIsStrict ==
    /\ []((startPt # NoPoint /\ ~dragging) =>
            \A pt \in Points :
                AtThreshold(pt, startPt) =>
                    ~ENABLED (onPointerMove(pt)
                                /\ (dragging' \/ isPanning' \/ pan' # pan
                                      \/ last' # last)))
    /\ [][\A r \in Regions :
            (topology /\ ~dragging /\ ClickOn(r)) =>
                selectedId' = handleStateClick(r, FALSE, selectedId)]_vars

\* The pointer is pressed, a move to a point at exactly T is possible, and
\* the gesture is not a drag.
C26_Witness ==
    /\ topology /\ startPt # NoPoint /\ last = startPt
    /\ ~dragging /\ ~isPanning
    /\ \E pt \in Points : AtThreshold(pt, startPt) /\ ENABLED onPointerMove(pt)

\* ---- C27
\* The distance of two fixed-point values.
Dist(a, b) == IF a >= b THEN a - b ELSE b - a

\* C27: lastPoint is not advanced while the gesture is Pressed, so the first
\* pan delta is measured from the press point: during a gesture in which no
\* animation runs and zoom stays z, pan has changed since the press by
\* (lastPoint - press point) / z on each axis, lastPoint being the press
\* point until the drag starts and the point of the last move from then on
\* up to the release. Each applied move rounds its quotient to a thousandth
\* of a pixel, so n moves differ from the one quotient by less than n
\* thousandths.
C27_PanMeasuredFromPress ==
    (pressView # NoView) =>
        /\ zoom = pressView.zoom
        /\ ~dragging => (last = startPt /\ pan = pressView.pan)
        /\ dragging =>
              /\ Dist(pan.x - pressView.pan.x,
                      Quot((last[1] - startPt[1]) * Unit * Unit, zoom)) < nPan
              /\ Dist(pan.y - pressView.pan.y,
                      Quot((last[2] - startPt[2]) * Unit * Unit, zoom)) < nPan

\* A drag that went to (2, 2) without passing the threshold, then to (10, 0):
\* one move was applied to pan, 10 px over the zoom along x and nothing along
\* y.
C27_Witness ==
    /\ pressView # NoView /\ dragging /\ nPan = 1
    /\ startPt = <<0, 0>> /\ last = <<10, 0>>
    /\ pan.x = pressView.pan.x + Quot(10 * Unit * Unit, zoom)
    /\ pan.y = pressView.pan.y

C29_SummaryOfCurrentSelection ==
    /\ summary # NoText => (summary[1] = selectedId /\ summary[2] = slide)
    /\ errorMsg # NoText => (errorMsg[1] = selectedId /\ errorMsg[2] = slide)

\* ---- C30
\* C30 (as claimed): whenever the list of slides is not empty, the carousel
\* index is within it at every render, 0 <= slide < slides.length, also in
\* the render that follows a change of the selection and precedes the effect
\* that resets slide to 0.
C30_SlideWithinSlides ==
    slidesLength > 0 =>
        /\ 0 <= slide /\ slide < slidesLength
        /\ 0 <= renderSlide /\ renderSlide < slidesLength

====
